---- MODULE Spec2Model ----
(***************************************************************************)
(* Model of src/cgi-wrapper.c (Mailman CGI wrapper).                       *)
(*                                                                         *)
(* C strings are sequences of non-zero bytes (the terminating NUL is the   *)
(* byte read one past the end).  A process run is modelled line by line    *)
(* through main(); two runs of the same binary are composed so that runs   *)
(* differing only in their inputs can be compared.  The collaborators of   *)
(* common.c (check_caller, run_script, fatal) and the direct-invocation    *)
(* wrapper are not part of src/cgi-wrapper.c; they are modelled from their *)
(* documented contracts.                                                   *)
(***************************************************************************)
EXTENDS Integers, Sequences, FiniteSets, TLC

VARIABLES mode, script, argv, env, callerGroup, pc, running_as_cgi,
          main_argc, main_argv, fake_argv, status, errno, caller_checks,
          dispatches, returns, fatals, exit_via, cmd_pc, cmd_arg, cmd_ret

wrapper_vars == <<mode, script, argv, env, callerGroup, pc, running_as_cgi,
                  main_argc, main_argv, fake_argv, status, errno,
                  caller_checks, dispatches, returns, fatals, exit_via>>
cmd_vars == <<cmd_pc, cmd_arg, cmd_ret>>
vars == <<mode, script, argv, env, callerGroup, pc, running_as_cgi,
          main_argc, main_argv, fake_argv, status, errno, caller_checks,
          dispatches, returns, fatals, exit_via, cmd_pc, cmd_arg, cmd_ret>>

(***************************************************************************)
(* Bounds                                                                  *)
(***************************************************************************)
\* largest status the dispatcher stub returns (statuses are 0..MaxStatus)
MaxStatus == 1
\* longest run of foreign bytes appended to a whitelist entry
MaxExtra == 2

(***************************************************************************)
(* Strings                                                                 *)
(***************************************************************************)
\* the null pointer: distinct from every C string, whose bytes are non-zero
NULL == <<0>>

s_admindb   == <<97, 100, 109, 105, 110, 100, 98>>
s_admin     == <<97, 100, 109, 105, 110>>
s_confirm   == <<99, 111, 110, 102, 105, 114, 109>>
s_create    == <<99, 114, 101, 97, 116, 101>>
s_edithtml  == <<101, 100, 105, 116, 104, 116, 109, 108>>
s_listinfo  == <<108, 105, 115, 116, 105, 110, 102, 111>>
s_options   == <<111, 112, 116, 105, 111, 110, 115>>
s_private   == <<112, 114, 105, 118, 97, 116, 101>>
s_rmlist    == <<114, 109, 108, 105, 115, 116>>
s_roster    == <<114, 111, 115, 116, 101, 114>>
s_subscribe == <<115, 117, 98, 115, 99, 114, 105, 98, 101>>
\* "driver", the first argument of run_script in main()
s_driver    == <<100, 114, 105, 118, 101, 114>>
\* inputs that are not whitelist entries
s_shutdown  == <<115, 104, 117, 116, 100, 111, 119, 110>>
s_wrapper   == <<119, 114, 97, 112, 112, 101, 114>>
s_list      == <<108, 105, 115, 116>>

\* const char *VALID_SCRIPTS[] with its NULL sentinel
VALID_SCRIPTS ==
    << s_admindb, s_admin, s_confirm, s_create, s_edithtml, s_listinfo,
       s_options, s_private, s_rmlist, s_roster, s_subscribe, NULL >>

\* the byte of s at (1-based) position i; the terminating NUL past the end
CharAt(s, i) == IF i <= Len(s) THEN s[i] ELSE 0

RECURSIVE StrcmpFrom(_, _, _)
StrcmpFrom(s1, s2, i) ==
    LET c1 == CharAt(s1, i)
        c2 == CharAt(s2, i)
    IN  IF c1 # c2 THEN c1 - c2
        ELSE IF c1 = 0 THEN 0
        ELSE StrcmpFrom(s1, s2, i + 1)

\* strcmp(3): zero iff the two strings are equal up to and including the NUL
strcmp(s1, s2) == StrcmpFrom(s1, s2, 1)

RECURSIVE StrncmpFrom(_, _, _, _)
StrncmpFrom(s1, s2, i, n) ==
    LET c1 == CharAt(s1, i)
        c2 == CharAt(s2, i)
    IN  IF i > n THEN 0
        ELSE IF c1 # c2 THEN c1 - c2
        ELSE IF c1 = 0 THEN 0
        ELSE StrncmpFrom(s1, s2, i + 1, n)

RECURSIVE CheckCommandFrom(_, _)
CheckCommandFrom(scr, i) ==
    IF VALID_SCRIPTS[i] = NULL THEN 0
    ELSE IF strcmp(scr, VALID_SCRIPTS[i]) = 0 THEN 1
    ELSE CheckCommandFrom(scr, i + 1)

RECURSIVE CheckCommandPrefixFrom(_, _)
CheckCommandPrefixFrom(scr, i) ==
    IF VALID_SCRIPTS[i] = NULL THEN 0
    ELSE IF StrncmpFrom(scr, VALID_SCRIPTS[i], 1, Len(scr)) = 0 THEN 1
    ELSE CheckCommandPrefixFrom(scr, i + 1)

\* check_command with strncmp(script, VALID_SCRIPTS[i], strlen(script))
check_command_prefix(scr) == CheckCommandPrefixFrom(scr, 1)

\* int check_command(char *script)
check_command(scr) == CheckCommandFrom(scr, 1)

(***************************************************************************)
(* Build-time configuration and process inputs                             *)
(***************************************************************************)
Runs == {1, 2}

\* values configure may give SCRIPT (char* script = SCRIPTNAME)
ScriptChoices == {s_admin, s_listinfo, s_shutdown}

\* const char* parentgroup = LEGAL_PARENT_GROUP
parentgroup == "www"

\* groups the invoking process may run under
Groups == {"www", "nobody"}

\* char** argv as the caller supplies it (argv[0] is element 1)
ArgvChoices ==
    { <<s_wrapper>>,
      <<s_wrapper, s_admin>>,
      <<s_wrapper, s_shutdown>>,
      <<s_wrapper, SubSeq(s_admin, 1, 3)>>,
      <<s_wrapper, s_admin, s_list>> }

\* char** env as received by main
Envs == { <<>>, <<"REQUEST_METHOD=GET">> }

\* values of errno after run_script returns
Errnos == {0, 2}

\* strerror(3)
strerror(e) ==
    CASE e = 0 -> "Success"
      [] e = 2 -> "No such file or directory"
      [] OTHER -> "Unknown error"

\* "Mailman cgi-wrapper (" SCRIPT ")"
LOG_IDENT(scr) ==
    <<77, 97, 105, 108, 109, 97, 110, 32, 99, 103, 105, 45, 119, 114, 97,
      112, 112, 101, 114, 32, 40>> \o scr \o <<41>>

\* the log identity string of the direct-invocation wrapper
direct_logident ==
    <<77, 97, 105, 108, 109, 97, 110, 32, 119, 114, 97, 112, 112, 101, 114>>

\* const char* logident = LOG_IDENT
logident == IF mode = "cgi" THEN LOG_IDENT(script) ELSE direct_logident

(***************************************************************************)
(* Collaborators (common.c), from their contracts                          *)
(***************************************************************************)
\* check_caller(ident, group) returns iff the caller runs under group;
\* otherwise it terminates the process with a fatal, logged outcome
check_caller_returns(r, group) == callerGroup[r] = group

\* the fatal report check_caller makes when it does not return
check_caller_fatal(ident) ==
    [ident |-> ident, kind |-> "AuthorizationError",
     fmt |-> "caller is not in group %s", arg |-> parentgroup]

\* outcomes of run_script(name, argc, argv, env): it replaces the process
\* image, or returns a status with errno set
RunScriptResults ==
    { [exec |-> TRUE, st |-> 0, e |-> 0] }
    \cup { [exec |-> FALSE, st |-> st, e |-> e] :
             st \in 0..MaxStatus, e \in Errnos }

\* fatal(ident, exitcode, fmt, ...) logs one report and exits; it never
\* returns to its caller
Fatal(r, report) ==
    /\ fatals' = [fatals EXCEPT ![r] = Append(@, report)]
    /\ exit_via' = [exit_via EXCEPT ![r] = "fatal"]
    /\ pc' = [pc EXCEPT ![r] = "exited"]

(***************************************************************************)
(* main() of cgi-wrapper.c                                                 *)
(***************************************************************************)
Init ==
    /\ \/ mode = "cgi" /\ script \in ScriptChoices
       \/ mode = "direct" /\ script = NULL
    /\ argv \in [Runs -> ArgvChoices]
    /\ env \in [Runs -> Envs]
    /\ callerGroup \in [Runs -> Groups]
    /\ pc = [r \in Runs |-> "main"]
    /\ running_as_cgi = [r \in Runs |-> 0]
    /\ main_argc = [r \in Runs |-> 0]
    /\ main_argv = [r \in Runs |-> <<>>]
    /\ fake_argv = [r \in Runs |-> <<>>]
    /\ status = [r \in Runs |-> 0]
    /\ errno = [r \in Runs |-> 0]
    /\ caller_checks = [r \in Runs |-> <<>>]
    /\ dispatches = [r \in Runs |-> <<>>]
    /\ returns = [r \in Runs |-> <<>>]
    /\ fatals = [r \in Runs |-> <<>>]
    /\ exit_via = [r \in Runs |-> "none"]
    /\ cmd_pc = "idle"
    /\ cmd_arg = <<>>
    /\ cmd_ret = 0

\* lines 71-75: running_as_cgi = 1; main_argc = argc; main_argv = argv
main_entry(r) ==
    /\ mode = "cgi"
    /\ pc[r] = "main"
    /\ running_as_cgi' = [running_as_cgi EXCEPT ![r] = 1]
    /\ main_argc' = [main_argc EXCEPT ![r] = Len(argv[r])]
    /\ main_argv' = [main_argv EXCEPT ![r] = argv[r]]
    /\ pc' = [pc EXCEPT ![r] = "check_caller"]
    /\ UNCHANGED <<mode, script, argv, env, callerGroup, fake_argv, status,
                   errno, caller_checks, dispatches, returns, fatals,
                   exit_via, cmd_vars>>

\* line 77 with the result of check_caller ignored
main_check_caller_unchecked(r) ==
    /\ mode = "cgi"
    /\ pc[r] = "check_caller"
    /\ caller_checks' = [caller_checks EXCEPT
                           ![r] = Append(@, [ident |-> logident,
                                             group |-> parentgroup])]
    /\ pc' = [pc EXCEPT ![r] = "fake_argv"]
    /\ UNCHANGED <<mode, script, argv, env, callerGroup, running_as_cgi,
                   main_argc, main_argv, fake_argv, status, errno,
                   dispatches, returns, fatals, exit_via, cmd_vars>>

\* line 77: check_caller(logident, parentgroup)
main_check_caller(r) ==
    /\ mode = "cgi"
    /\ pc[r] = "check_caller"
    /\ caller_checks' = [caller_checks EXCEPT
                           ![r] = Append(@, [ident |-> logident,
                                             group |-> parentgroup])]
    /\ IF check_caller_returns(r, parentgroup)
       THEN /\ pc' = [pc EXCEPT ![r] = "fake_argv"]
            /\ UNCHANGED <<fatals, exit_via>>
       ELSE Fatal(r, check_caller_fatal(logident))
    /\ UNCHANGED <<mode, script, argv, env, callerGroup, running_as_cgi,
                   main_argc, main_argv, fake_argv, status, errno,
                   dispatches, returns, cmd_vars>>

\* the synthetic vector with the script name in slot 0
FakeArgvSlot0(scr) == <<scr, NULL, NULL>>

\* lines 85-87: fake_argv[0] = NULL; fake_argv[1] = NULL; fake_argv[2] = script
FakeArgv(scr) == <<NULL, NULL, scr>>

main_fake_argv(r) ==
    /\ mode = "cgi"
    /\ pc[r] = "fake_argv"
    /\ fake_argv' = [fake_argv EXCEPT ![r] = FakeArgv(script)]
    /\ pc' = [pc EXCEPT ![r] = "run_script"]
    /\ UNCHANGED <<mode, script, argv, env, callerGroup, running_as_cgi,
                   main_argc, main_argv, status, errno, caller_checks,
                   dispatches, returns, fatals, exit_via, cmd_vars>>

\* the call with the caller's argc and argv handed through
RunScriptCallArgv(r) ==
    [name |-> s_driver, argc |-> main_argc[r], argv |-> main_argv[r],
     env |-> env[r]]

\* line 89: the arguments of run_script("driver", 3, fake_argv, env)
RunScriptCall(r) ==
    [name |-> s_driver, argc |-> 3, argv |-> fake_argv[r], env |-> env[r]]

\* line 89: status = run_script("driver", 3, fake_argv, env)
main_run_script(r) ==
    /\ mode = "cgi"
    /\ pc[r] = "run_script"
    /\ dispatches' = [dispatches EXCEPT ![r] = Append(@, RunScriptCall(r))]
    /\ \E res \in RunScriptResults :
          IF res.exec
          THEN /\ pc' = [pc EXCEPT ![r] = "exec"]
               /\ exit_via' = [exit_via EXCEPT ![r] = "exec"]
               /\ UNCHANGED <<status, errno, returns>>
          ELSE /\ status' = [status EXCEPT ![r] = res.st]
               /\ errno' = [errno EXCEPT ![r] = res.e]
               /\ returns' = [returns EXCEPT ![r] = Append(@, res.st)]
               /\ pc' = [pc EXCEPT ![r] = "fatal"]
               /\ UNCHANGED exit_via
    /\ UNCHANGED <<mode, script, argv, env, callerGroup, running_as_cgi,
                   main_argc, main_argv, fake_argv, caller_checks, fatals,
                   cmd_vars>>

\* the report with errno in place of status
FatalCallErrno(r) ==
    [ident |-> logident, kind |-> "Status", code |-> errno[r],
     fmt |-> "%s", arg |-> strerror(errno[r])]

\* line 90: the arguments of fatal(logident, status, "%s", strerror(errno))
FatalCall(r) ==
    [ident |-> logident, kind |-> "Status", code |-> status[r],
     fmt |-> "%s", arg |-> strerror(errno[r])]

\* lines 90-91 without the call of fatal: a plain return status
main_fatal_return(r) ==
    /\ mode = "cgi"
    /\ pc[r] = "fatal"
    /\ exit_via' = [exit_via EXCEPT ![r] = "return"]
    /\ pc' = [pc EXCEPT ![r] = "exited"]
    /\ UNCHANGED <<mode, script, argv, env, callerGroup, running_as_cgi,
                   main_argc, main_argv, fake_argv, status, errno,
                   caller_checks, dispatches, returns, fatals, cmd_vars>>

\* lines 90-91 with fatal called for a non-zero status only
main_fatal_nonzero(r) ==
    /\ mode = "cgi"
    /\ pc[r] = "fatal"
    /\ IF status[r] # 0
       THEN Fatal(r, FatalCall(r))
       ELSE /\ exit_via' = [exit_via EXCEPT ![r] = "return"]
            /\ pc' = [pc EXCEPT ![r] = "exited"]
            /\ UNCHANGED fatals
    /\ UNCHANGED <<mode, script, argv, env, callerGroup, running_as_cgi,
                   main_argc, main_argv, fake_argv, status, errno,
                   caller_checks, dispatches, returns, cmd_vars>>

\* lines 90-91: fatal(logident, status, "%s", strerror(errno)); fatal does
\* not return, so the trailing return status is never executed
main_fatal(r) ==
    /\ mode = "cgi"
    /\ pc[r] = "fatal"
    /\ Fatal(r, FatalCall(r))
    /\ UNCHANGED <<mode, script, argv, env, callerGroup, running_as_cgi,
                   main_argc, main_argv, fake_argv, status, errno,
                   caller_checks, dispatches, returns, cmd_vars>>

(***************************************************************************)
(* main() of the direct-invocation wrapper                                 *)
(***************************************************************************)
\* records argc and argv for diagnostic use
direct_entry(r) ==
    /\ mode = "direct"
    /\ pc[r] = "main"
    /\ main_argc' = [main_argc EXCEPT ![r] = Len(argv[r])]
    /\ main_argv' = [main_argv EXCEPT ![r] = argv[r]]
    /\ pc' = [pc EXCEPT ![r] = "direct_args"]
    /\ UNCHANGED <<mode, script, argv, env, callerGroup, running_as_cgi,
                   fake_argv, status, errno, caller_checks, dispatches,
                   returns, fatals, exit_via, cmd_vars>>

\* the argument count check with the bound off by one (argc < 1)
direct_args_off_by_one(r) ==
    /\ mode = "direct"
    /\ pc[r] = "direct_args"
    /\ IF Len(argv[r]) < 1
       THEN Fatal(r, [ident |-> logident, kind |-> "UsageError",
                      fmt |-> "Usage: %s program [args...]",
                      arg |-> argv[r][1]])
       ELSE /\ pc' = [pc EXCEPT ![r] = "direct_check_caller"]
            /\ UNCHANGED <<fatals, exit_via>>
    /\ UNCHANGED <<mode, script, argv, env, callerGroup, running_as_cgi,
                   main_argc, main_argv, fake_argv, status, errno,
                   caller_checks, dispatches, returns, cmd_vars>>

\* at least one argument beyond the program name, else UsageError
direct_args(r) ==
    /\ mode = "direct"
    /\ pc[r] = "direct_args"
    /\ IF Len(argv[r]) < 2
       THEN Fatal(r, [ident |-> logident, kind |-> "UsageError",
                      fmt |-> "Usage: %s program [args...]",
                      arg |-> argv[r][1]])
       ELSE /\ pc' = [pc EXCEPT ![r] = "direct_command"]
            /\ UNCHANGED <<fatals, exit_via>>
    /\ UNCHANGED <<mode, script, argv, env, callerGroup, running_as_cgi,
                   main_argc, main_argv, fake_argv, status, errno,
                   caller_checks, dispatches, returns, cmd_vars>>

\* the first argument must pass check_command, else IllegalCommandError
direct_command(r) ==
    /\ mode = "direct"
    /\ pc[r] = "direct_command"
    /\ IF check_command(argv[r][2]) = 0
       THEN Fatal(r, [ident |-> logident, kind |-> "IllegalCommandError",
                      fmt |-> "Illegal command: %s", arg |-> argv[r][2]])
       ELSE /\ pc' = [pc EXCEPT ![r] = "direct_check_caller"]
            /\ UNCHANGED <<fatals, exit_via>>
    /\ UNCHANGED <<mode, script, argv, env, callerGroup, running_as_cgi,
                   main_argc, main_argv, fake_argv, status, errno,
                   caller_checks, dispatches, returns, cmd_vars>>

\* the caller check, after command validation and before dispatch
direct_check_caller(r) ==
    /\ mode = "direct"
    /\ pc[r] = "direct_check_caller"
    /\ caller_checks' = [caller_checks EXCEPT
                           ![r] = Append(@, [ident |-> logident,
                                             group |-> parentgroup])]
    /\ IF check_caller_returns(r, parentgroup)
       THEN /\ pc' = [pc EXCEPT ![r] = "direct_run_script"]
            /\ UNCHANGED <<fatals, exit_via>>
       ELSE Fatal(r, check_caller_fatal(logident))
    /\ UNCHANGED <<mode, script, argv, env, callerGroup, running_as_cgi,
                   main_argc, main_argv, fake_argv, status, errno,
                   dispatches, returns, cmd_vars>>

\* dispatch of the requested command with the caller's argument vector
direct_run_script(r) ==
    /\ mode = "direct"
    /\ pc[r] = "direct_run_script"
    /\ dispatches' = [dispatches EXCEPT
                        ![r] = Append(@, [name |-> argv[r][2],
                                          argc |-> Len(argv[r]),
                                          argv |-> argv[r],
                                          env |-> env[r]])]
    /\ \E res \in RunScriptResults :
          IF res.exec
          THEN /\ pc' = [pc EXCEPT ![r] = "exec"]
               /\ exit_via' = [exit_via EXCEPT ![r] = "exec"]
               /\ UNCHANGED <<status, errno, returns>>
          ELSE /\ status' = [status EXCEPT ![r] = res.st]
               /\ errno' = [errno EXCEPT ![r] = res.e]
               /\ returns' = [returns EXCEPT ![r] = Append(@, res.st)]
               /\ pc' = [pc EXCEPT ![r] = "direct_fatal"]
               /\ UNCHANGED exit_via
    /\ UNCHANGED <<mode, script, argv, env, callerGroup, running_as_cgi,
                   main_argc, main_argv, fake_argv, caller_checks, fatals,
                   cmd_vars>>

\* any returned status is forwarded to the exit reporter
direct_fatal(r) ==
    /\ mode = "direct"
    /\ pc[r] = "direct_fatal"
    /\ Fatal(r, FatalCall(r))
    /\ UNCHANGED <<mode, script, argv, env, callerGroup, running_as_cgi,
                   main_argc, main_argv, fake_argv, status, errno,
                   caller_checks, dispatches, returns, cmd_vars>>

Next ==
    \E r \in Runs :
        \/ main_entry(r)
        \/ main_check_caller(r)
        \/ main_fake_argv(r)
        \/ main_run_script(r)
        \/ main_fatal(r)
        \/ direct_entry(r)
        \/ direct_args(r)
        \/ direct_command(r)
        \/ direct_check_caller(r)
        \/ direct_run_script(r)
        \/ direct_fatal(r)

Spec == Init /\ [][Next]_vars

(***************************************************************************)
(* check_command applied to bounded inputs                                 *)
(***************************************************************************)
\* the entries of VALID_SCRIPTS before the sentinel
Entries == { VALID_SCRIPTS[i] : i \in 1..(Len(VALID_SCRIPTS) - 1) }

\* every contiguous substring of w, the empty string and w itself included
Substrings(w) ==
    { SubSeq(w, a, b) : a \in 1..(Len(w) + 1), b \in 0..Len(w) }

\* ' ', '/', 'x'
ExtraBytes == {32, 47, 120}

\* non-empty strings of at most MaxExtra foreign bytes
Tails == UNION { [1..n -> ExtraBytes] : n \in 1..MaxExtra }

\* w with the letter at position k in upper case
UpperAt(w, k) == [w EXCEPT ![k] = @ - 32]

CmdInputs ==
    UNION { Substrings(w) : w \in Entries }
    \cup { w \o t : w \in Entries, t \in Tails }
    \cup { t \o w : w \in Entries, t \in Tails }
    \cup UNION { { UpperAt(w, k) : k \in 1..Len(w) } : w \in Entries }
    \cup { s_shutdown, s_driver, s_wrapper }

InitCmd ==
    /\ mode = "cgi"
    /\ script = s_admin
    /\ argv = [r \in Runs |-> <<s_wrapper>>]
    /\ env = [r \in Runs |-> <<>>]
    /\ callerGroup = [r \in Runs |-> parentgroup]
    /\ pc = [r \in Runs |-> "idle"]
    /\ running_as_cgi = [r \in Runs |-> 0]
    /\ main_argc = [r \in Runs |-> 0]
    /\ main_argv = [r \in Runs |-> <<>>]
    /\ fake_argv = [r \in Runs |-> <<>>]
    /\ status = [r \in Runs |-> 0]
    /\ errno = [r \in Runs |-> 0]
    /\ caller_checks = [r \in Runs |-> <<>>]
    /\ dispatches = [r \in Runs |-> <<>>]
    /\ returns = [r \in Runs |-> <<>>]
    /\ fatals = [r \in Runs |-> <<>>]
    /\ exit_via = [r \in Runs |-> "none"]
    /\ cmd_pc = "call"
    /\ cmd_arg \in CmdInputs
    /\ cmd_ret = 0

\* ret = check_command(arg)
call_check_command ==
    /\ cmd_pc = "call"
    /\ cmd_ret' = check_command(cmd_arg)
    /\ cmd_pc' = "done"
    /\ UNCHANGED <<cmd_arg, wrapper_vars>>

NextCmd == call_check_command

SpecCmd == InitCmd /\ [][NextCmd]_vars

(***************************************************************************)
(* Properties                                                              *)
(***************************************************************************)
\* the eleven command names, as a set
WhitelistNames ==
    { s_admindb, s_admin, s_confirm, s_create, s_edithtml, s_listinfo,
      s_options, s_private, s_rmlist, s_roster, s_subscribe }

\* the run has left the wrapper: it exited, or the dispatched script took over
Finished(r) == pc[r] \in {"exited", "exec"}

\* the caller of run r is in the configured parent group
Authorized(r) == callerGroup[r] = parentgroup

\* the exit code of a run that exited: the code given to fatal, or the value
\* returned from main
ExitCode(r) ==
    IF exit_via[r] = "fatal" /\ fatals[r][Len(fatals[r])].kind = "Status"
    THEN fatals[r][Len(fatals[r])].code
    ELSE status[r]

\* C1: every dispatch is preceded by a caller check made with the log
\* identity and the configured parent group, and that check succeeded; a run
\* whose caller check failed has no dispatch.
C1_CallerCheckBeforeDispatch ==
    \A r \in Runs :
        /\ dispatches[r] # <<>> =>
              /\ caller_checks[r] =
                    << [ident |-> logident, group |-> parentgroup] >>
              /\ Authorized(r)
        /\ (caller_checks[r] # <<>> /\ ~Authorized(r)) =>
              /\ dispatches[r] = <<>>
              /\ pc[r] = "exited"

C1_Witness ==
    /\ mode = "cgi"
    /\ dispatches[1] # <<>>
    /\ ~Authorized(2)
    /\ pc[2] = "exited"

\* C2: check_command returns 1 exactly for the eleven whitelist names and 0
\* for everything else, in particular for the empty string, a proper prefix,
\* an inner substring, an entry with trailing bytes and a case variant.
C2_CheckCommandExact ==
    cmd_pc = "done" =>
        /\ cmd_ret \in {0, 1}
        /\ cmd_ret = 1 <=> cmd_arg \in WhitelistNames
        /\ cmd_arg \in { <<>>, SubSeq(s_admin, 1, 3), SubSeq(s_admin, 2, 5),
                         s_admin \o <<32>>, s_admin \o <<47, 120>>,
                         UpperAt(s_admin, 1) } => cmd_ret = 0

C2_Witness ==
    /\ cmd_pc = "done"
    /\ cmd_arg = s_admin \o <<47, 120>>
    /\ cmd_ret = 0

\* C3: two CGI runs of the same binary with the same environment and the
\* same caller group, whatever their argc and argv, hand run_script the same
\* name, argument count, argument vector and environment.
C3_ArgvDoesNotInfluenceDispatch ==
    ( /\ mode = "cgi"
      /\ env[1] = env[2]
      /\ callerGroup[1] = callerGroup[2]
      /\ dispatches[1] # <<>>
      /\ dispatches[2] # <<>> ) => dispatches[1] = dispatches[2]

C3_Witness ==
    /\ mode = "cgi"
    /\ env[1] = env[2]
    /\ callerGroup[1] = callerGroup[2]
    /\ Len(argv[1]) # Len(argv[2])
    /\ dispatches[1] # <<>>
    /\ dispatches[2] # <<>>

\* a run whose first argument is not a whitelist name never reaches the
\* caller check or the dispatch and, once over, ended in IllegalCommandError
RejectedAsIllegal(r) ==
    /\ caller_checks[r] = <<>>
    /\ dispatches[r] = <<>>
    /\ pc[r] # "exec"
    /\ pc[r] = "exited" =>
          /\ Len(fatals[r]) = 1
          /\ fatals[r][1].kind = "IllegalCommandError"

\* C4 as stated: in every invocation with a first argument outside the
\* whitelist the outcome is IllegalCommandError and neither the caller check
\* nor the dispatch occurs.
C4_Original ==
    \A r \in Runs :
        (Len(argv[r]) >= 2 /\ argv[r][2] \notin WhitelistNames)
            => RejectedAsIllegal(r)

\* C4 (amended): in every direct-mode invocation with a first argument
\* outside the whitelist the outcome is IllegalCommandError and neither the
\* caller check nor the dispatch occurs.
C4_DirectIllegalCommand ==
    \A r \in Runs :
        ( /\ mode = "direct"
          /\ Len(argv[r]) >= 2
          /\ argv[r][2] \notin WhitelistNames ) => RejectedAsIllegal(r)

C4_Witness ==
    /\ mode = "direct"
    /\ Len(argv[1]) >= 2
    /\ argv[1][2] = s_shutdown
    /\ pc[1] = "exited"
    /\ fatals[1][1].kind = "IllegalCommandError"
    /\ Len(argv[2]) >= 2
    /\ argv[2][2] = SubSeq(s_admin, 1, 3)
    /\ pc[2] = "exited"

\* C5: a direct-mode run with fewer than 2 arguments never validates a
\* command, checks the caller or dispatches and, once over, ended in
\* UsageError.
C5_DirectUsageError ==
    \A r \in Runs :
        (mode = "direct" /\ Len(argv[r]) < 2) =>
            /\ dispatches[r] = <<>>
            /\ pc[r] \in {"main", "direct_args", "exited"}
            /\ pc[r] = "exited" =>
                  /\ Len(fatals[r]) = 1
                  /\ fatals[r][1].kind = "UsageError"

C5_Witness ==
    /\ mode = "direct"
    /\ Len(argv[1]) < 2
    /\ pc[1] = "exited"
    /\ fatals[1][1].kind = "UsageError"

\* C6: a run that exited did so through exactly one call of fatal, which
\* carries an identity, a code or error kind and a message; no run exits by
\* returning from main, in particular not after run_script returned.
C6_SingleExitFunnel ==
    \A r \in Runs :
        /\ exit_via[r] # "return"
        /\ Len(fatals[r]) <= 1
        /\ pc[r] = "exited" =>
              /\ exit_via[r] = "fatal"
              /\ Len(fatals[r]) = 1
              /\ fatals[r][1].ident = logident
              /\ fatals[r][1].fmt # ""
        /\ (returns[r] # <<>> /\ pc[r] \notin {"fatal", "direct_fatal"}) =>
              /\ pc[r] = "exited"
              /\ exit_via[r] = "fatal"

C6_Witness ==
    /\ mode = "cgi"
    /\ returns[1] # <<>>
    /\ pc[1] = "exited"
    /\ exit_via[1] = "fatal"
    /\ ~Authorized(2)
    /\ pc[2] = "exited"

\* an authorized CGI run whose dispatcher returned status 0 and that exited
SuccessReturned(r) ==
    /\ mode = "cgi"
    /\ Authorized(r)
    /\ returns[r] = <<0>>
    /\ pc[r] = "exited"

\* C7 as stated: with an authorized caller and a dispatcher returning 0 the
\* run yields exit code 0 and no error message is reported.
C7_Original ==
    \A r \in Runs :
        SuccessReturned(r) => (ExitCode(r) = 0 /\ fatals[r] = <<>>)

\* C7 (amended): with an authorized caller and a dispatcher returning 0 the
\* run yields exit code 0, and the status is reported once through fatal with
\* the errno-derived message, like any other returned status.
C7_SuccessStillReported ==
    \A r \in Runs :
        SuccessReturned(r) =>
            /\ ExitCode(r) = 0
            /\ fatals[r] = << [ident |-> logident, kind |-> "Status",
                               code |-> 0, fmt |-> "%s",
                               arg |-> strerror(errno[r])] >>

C7_Witness == SuccessReturned(1) /\ errno[1] = 0

\* C8: in the CGI wrapper run_script is invoked at most once, and exactly
\* once when the caller check has succeeded and the run has moved on; the
\* call names "driver", has argument count 3, the vector (NULL, NULL, script)
\* and the environment main received; main_argc and main_argv hold the
\* caller's values, which are not part of the call.
C8_DispatchFrame ==
    \A r \in Runs :
        mode = "cgi" =>
            /\ Len(dispatches[r]) <= 1
            /\ ( /\ caller_checks[r] # <<>>
                 /\ Authorized(r)
                 /\ pc[r] \in {"fatal", "exec", "exited"} )
                   => Len(dispatches[r]) = 1
            /\ dispatches[r] # <<>> =>
                  /\ dispatches[r][1].name = s_driver
                  /\ dispatches[r][1].argc = 3
                  /\ dispatches[r][1].argv = <<NULL, NULL, script>>
                  /\ dispatches[r][1].env = env[r]
                  /\ main_argc[r] = Len(argv[r])
                  /\ main_argv[r] = argv[r]
                  /\ running_as_cgi[r] = 1

C8_Witness ==
    /\ mode = "cgi"
    /\ argv[1] = <<s_wrapper, s_admin, s_list>>
    /\ env[1] # <<>>
    /\ Len(dispatches[1]) = 1
    /\ pc[1] = "exec"

\* C9: once run_script has returned a status and the run is over, fatal has
\* been called exactly once, with the log identity, the returned status and
\* the message strerror(errno).
C9_StatusForwarded ==
    \A r \in Runs :
        (returns[r] # <<>> /\ pc[r] = "exited") =>
            fatals[r] = << [ident |-> logident, kind |-> "Status",
                            code |-> returns[r][1], fmt |-> "%s",
                            arg |-> strerror(errno[r])] >>

C9_Witness ==
    /\ mode = "cgi"
    /\ returns[1] = <<1>>
    /\ errno[1] = 2
    /\ pc[1] = "exited"
    /\ returns[2] = <<0>>
    /\ pc[2] = "exited"

\* C10 as stated: on every CGI dispatch the script name in slot 2 of the
\* synthetic argument vector is a whitelist member, for every value of the
\* build-time script constant.
C10_Original ==
    \A r \in Runs :
        (mode = "cgi" /\ dispatches[r] # <<>>) =>
            check_command(dispatches[r][1].argv[3]) = 1

====
